---------------------------- MODULE Spec2Model ----------------------------
(***************************************************************************)
(* A model of scrapyd's status pages (scrapyd/website.py) and of its HTTP  *)
(* basic-auth gate (scrapyd/basicauth.py).                                 *)
(*                                                                         *)
(* Strings are sequences: a byte string is a sequence of byte values, a    *)
(* text is a sequence of code points, a URL or a piece of markup is a      *)
(* sequence of tokens, so that concatenation, prefixes and equality are    *)
(* those of the program's strings.                                         *)
(*                                                                         *)
(* The module holds several specifications over one set of variables; each *)
(* drives one component and leaves the others as constructed:              *)
(*   SpecAuth   StringCredentialsChecker.requestAvatarId                   *)
(*   SpecRealm  PublicHTMLRealm.requestAvatar                              *)
(*   SpecLeak   two processes running the credentials checker side by side *)
(*   SpecTrunc  microsec_trunc                                             *)
(*   Spec       the Jobs page, one render per reactor turn, the clock      *)
(*              stopped                                                    *)
(*   SpecClock  the Jobs page of one job, the clock running                *)
(*   SpecConc   the Jobs page with the three section reads interleaved     *)
(*              with the queue source and the launcher                     *)
(***************************************************************************)
EXTENDS Integers, Sequences, FiniteSets, TLC

VARIABLES
    \* ---- basicauth.py: StringCredentialsChecker ----
    config,        \* the configured (username, password), as text
    checker,       \* the StringCredentialsChecker object
    credentials,   \* the credentials of the call being answered
    deferred,      \* what requestAvatarId returned
    stdout,        \* the lines the process has printed
    \* ---- basicauth.py: PublicHTMLRealm ----
    realm,         \* the PublicHTMLRealm object
    avatarRequest, \* the arguments of the requestAvatar call being answered
    avatar,        \* what requestAvatar returned or raised
    \* ---- two processes side by side ----
    procA, procB,  \* each: its checker, its decisions and its printed lines
    \* ---- website.py: microsec_trunc ----
    timelike,      \* the argument
    truncated,     \* microsec_trunc(timelike)
    twice,         \* microsec_trunc(microsec_trunc(timelike))
    \* ---- website.py: Root, Jobs and their sources ----
    root,          \* the Root resource: logsdir, local_items, children, prefix_header
    queues,        \* poller.queues: project -> the pending messages, FIFO
    spawning,      \* messages the poller has popped and the launcher not yet spawned
    processes,     \* launcher.processes, its values in insertion order
    finished,      \* launcher.finished, oldest first
    njobs,         \* the number of jobs scheduled so far
    now,           \* datetime.now(), in microseconds
    ticks,         \* the number of clock steps so far
    jobs,          \* the fields of the shared Jobs resource
    render,        \* the render in progress: its position and the parts built
    doc,           \* the document a render returned, until it is written out
    shown,         \* job -> the Runtime cell of its latest Running row, and when
    lastOp         \* the operation that led to this state

authVars  == <<config, checker, credentials, deferred, stdout>>
realmVars == <<realm, avatarRequest, avatar>>
leakVars  == <<procA, procB>>
truncVars == <<timelike, truncated, twice>>
jobsVars  == <<root, queues, spawning, processes, finished, njobs, now, ticks,
               jobs, render, doc, shown>>
vars == <<authVars, realmVars, leakVars, truncVars, jobsVars, lastOp>>

\* Python's None, and an attribute not set yet
None == [none |-> TRUE]

(***************************************************************************)
(* Bounds of the model.                                                    *)
(***************************************************************************)
MaxLen    == 1   \* code points in a configured username or password
MaxCalls  == 2   \* calls of requestAvatarId per process
MaxIfaces == 2   \* interfaces passed to requestAvatar
MaxSec    == 2   \* whole seconds in an argument of microsec_trunc
MaxJobs   == 2   \* jobs scheduled
MaxTicks  == 2   \* clock steps

(***************************************************************************)
(* Helpers on sequences.                                                   *)
(***************************************************************************)
SeqsUpTo(S, n) == UNION {[1..k -> S] : k \in 0..n}

Range(s) == {s[i] : i \in 1..Len(s)}

IsPrefix(p, s) == Len(p) <= Len(s) /\ SubSeq(s, 1, Len(p)) = p

RECURSIVE Flatten(_)
Flatten(ss) == IF ss = <<>> THEN <<>> ELSE Head(ss) \o Flatten(Tail(ss))

RemoveAt(s, i) == SubSeq(s, 1, i - 1) \o SubSeq(s, i + 1, Len(s))

(***************************************************************************)
(* basicauth.py                                                            *)
(***************************************************************************)
CodePoints == {97, 233}          \* 'a', 'e acute'
Texts      == SeqsUpTo(CodePoints, MaxLen)

\* str.encode('utf-8') of one code point (one to three bytes)
EncodeCodePoint(cp) ==
    IF cp < 128 THEN <<cp>>
    ELSE IF cp < 2048 THEN <<192 + (cp \div 64), 128 + (cp % 64)>>
    ELSE <<224 + (cp \div 4096), 128 + ((cp \div 64) % 64), 128 + (cp % 64)>>

\* str.encode('utf-8')
Encode(text) == Flatten([i \in 1..Len(text) |-> EncodeCodePoint(text[i])])

\* StringCredentialsChecker.__init__
StringCredentialsChecker(username, password) ==
    [username |-> Encode(username), password |-> Encode(password)]

\* repr() of the credentials object: twisted's UsernamePassword defines no
\* __repr__, so the default one names the class and not the fields
ReprCredentials(creds) == <<"<UsernamePassword object>">>

\* the four print() calls of requestAvatarId
PrintedLines(self, creds) ==
    << <<"HELLO!">>,
       <<"credentials=">> \o ReprCredentials(creds),
       <<"self.username=">> \o self.username,
       <<"self.password=">> \o self.password >>

\* a mutant of RequestAvatarId: the password is not compared
RequestAvatarIdUsernameOnly(self, creds) ==
    IF creds.username = self.username
    THEN [state |-> "succeed", result |-> creds.username]
    ELSE [state |-> "fail", failure |-> "UnauthorizedLogin"]

\* StringCredentialsChecker.requestAvatarId: the Deferred it returns
RequestAvatarId(self, creds) ==
    IF creds.username = self.username /\ creds.password = self.password
    THEN [state |-> "succeed", result |-> creds.username]
    ELSE [state |-> "fail", failure |-> "UnauthorizedLogin"]

Configs == [username : Texts, password : Texts]

\* the byte strings presented: the encodings of the texts, and each of them
\* with its last byte dropped and with a byte added
EncodedTexts == {Encode(t) : t \in Texts}
ByteStrings ==
    EncodedTexts
    \cup {SubSeq(b, 1, Len(b) - 1) : b \in EncodedTexts \ {<<>>}}
    \cup {Append(b, 97) : b \in EncodedTexts}
Presented == [username : ByteStrings, password : ByteStrings]

InitAuth ==
    /\ config \in Configs
    /\ checker = StringCredentialsChecker(config.username, config.password)
    /\ credentials = None
    /\ deferred = None
    /\ stdout = <<>>

\* one call of requestAvatarId with the presented credentials
CallRequestAvatarId(creds) ==
    /\ Len(stdout) < 4 * MaxCalls
    /\ credentials' = creds
    /\ stdout' = stdout \o PrintedLines(checker, creds)
    /\ deferred' = RequestAvatarId(checker, creds)
    /\ lastOp' = "requestAvatarId"
    /\ UNCHANGED <<config, checker>>
    /\ UNCHANGED <<realmVars, leakVars, truncVars, jobsVars>>

(***************************************************************************)
(* PublicHTMLRealm                                                         *)
(***************************************************************************)
Interfaces == {"IResource", "IMailbox", "IPerspective"}
Resources  == {"root", "wrapped_root"}

\* PublicHTMLRealm.__init__
PublicHTMLRealm(resource) == [resource |-> resource]

\* a mutant of RequestAvatar: only the first requested interface is looked at
RequestAvatarFirstOnly(self, avatarId, mind, interfaces) ==
    IF Len(interfaces) > 0 /\ interfaces[1] = "IResource"
    THEN [kind |-> "return", value |-> <<"IResource", self.resource, "logout">>]
    ELSE [kind |-> "raise", exc |-> "NotImplementedError"]

\* PublicHTMLRealm.requestAvatar
RequestAvatar(self, avatarId, mind, interfaces) ==
    IF "IResource" \in Range(interfaces)
    THEN [kind |-> "return", value |-> <<"IResource", self.resource, "logout">>]
    ELSE [kind |-> "raise", exc |-> "NotImplementedError"]

InitRealm ==
    /\ realm \in {PublicHTMLRealm(r) : r \in Resources}
    /\ avatarRequest = None
    /\ avatar = None

\* one call of requestAvatar
CallRequestAvatar(avatarId, interfaces) ==
    /\ avatarRequest' = [avatarId |-> avatarId, interfaces |-> interfaces]
    /\ avatar' = RequestAvatar(realm, avatarId, None, interfaces)
    /\ lastOp' = "requestAvatar"
    /\ UNCHANGED realm
    /\ UNCHANGED <<authVars, leakVars, truncVars, jobsVars>>

(***************************************************************************)
(* Two processes, each with its own configured pair, answering calls side  *)
(* by side.                                                                *)
(***************************************************************************)
NewProc(cfg) ==
    [checker |-> StringCredentialsChecker(cfg.username, cfg.password),
     decisions |-> <<>>, stdout |-> <<>>]

\* requestAvatarId in one of the processes
ProcCall(p, creds) ==
    [checker |-> p.checker,
     decisions |-> Append(p.decisions, RequestAvatarId(p.checker, creds).state),
     stdout |-> p.stdout \o PrintedLines(p.checker, creds)]

PresentedEncoded == [username : EncodedTexts, password : EncodedTexts]

InitLeak ==
    /\ procA \in {NewProc(c) : c \in Configs}
    /\ procB \in {NewProc(c) : c \in Configs}

\* the two processes each answer one call
CallBoth(credsA, credsB) ==
    /\ Len(procA.decisions) < MaxCalls
    /\ procA' = ProcCall(procA, credsA)
    /\ procB' = ProcCall(procB, credsB)
    /\ lastOp' = "requestAvatarId"
    /\ UNCHANGED <<authVars, realmVars, truncVars, jobsVars>>

(***************************************************************************)
(* website.py: microsec_trunc, on Python's datetime and timedelta.         *)
(***************************************************************************)
MicrosPerSecond == 1000000
SecondsPerDay   == 86400

\* timedelta(microseconds=us): the constructor normalises to days, seconds in
\* 0..86399 and microseconds in 0..999999, days carrying the sign
Timedelta(us) ==
    [type |-> "timedelta",
     days |-> (us \div MicrosPerSecond) \div SecondsPerDay,
     seconds |-> (us \div MicrosPerSecond) % SecondsPerDay,
     microseconds |-> us % MicrosPerSecond]

\* a datetime, from its microseconds since the epoch
Datetime(us) ==
    [type |-> "datetime",
     second |-> us \div MicrosPerSecond,
     microsecond |-> us % MicrosPerSecond]

\* the value of a timelike in microseconds
Total(t) ==
    IF t.type = "datetime"
    THEN t.second * MicrosPerSecond + t.microsecond
    ELSE (t.days * SecondsPerDay + t.seconds) * MicrosPerSecond + t.microseconds

\* datetime - timedelta and timedelta - timedelta
Minus(t, delta) ==
    IF t.type = "datetime"
    THEN Datetime(Total(t) - Total(delta))
    ELSE Timedelta(Total(t) - Total(delta))

\* datetime - datetime
Since(later, earlier) == Timedelta(Total(later) - Total(earlier))

\* a mutant of microsec_trunc: rounds to the nearest second
microsec_trunc_round(t) ==
    LET ms == IF "microsecond" \in DOMAIN t THEN t.microsecond ELSE t.microseconds
    IN  IF 2 * ms >= MicrosPerSecond
        THEN Minus(t, Timedelta(ms - MicrosPerSecond))
        ELSE Minus(t, Timedelta(ms))

\* microsec_trunc
microsec_trunc(t) ==
    LET ms == IF "microsecond" \in DOMAIN t THEN t.microsecond ELSE t.microseconds
    IN  Minus(t, Timedelta(ms))

MicroSamples == {0, 1, 300000, 500000, 700000, 999999}
Timelikes ==
    {Timedelta(s * MicrosPerSecond + m) : s \in (0 - MaxSec)..MaxSec, m \in MicroSamples}
    \cup {Datetime(s * MicrosPerSecond + m) : s \in 0..MaxSec, m \in MicroSamples}

InitTrunc ==
    /\ timelike \in Timelikes
    /\ truncated = None
    /\ twice = None

\* microsec_trunc(timelike)
Truncate ==
    /\ truncated = None
    /\ truncated' = microsec_trunc(timelike)
    /\ lastOp' = "microsec_trunc"
    /\ UNCHANGED <<timelike, twice>>
    /\ UNCHANGED <<authVars, realmVars, leakVars, jobsVars>>

\* microsec_trunc of the result
TruncateAgain ==
    /\ truncated # None
    /\ twice = None
    /\ twice' = microsec_trunc(truncated)
    /\ lastOp' = "microsec_trunc"
    /\ UNCHANGED <<timelike, truncated>>
    /\ UNCHANGED <<authVars, realmVars, leakVars, jobsVars>>

(***************************************************************************)
(* website.py: Root and the sources the Jobs page reads.                   *)
(***************************************************************************)
Projects == <<"default", "other">>     \* in registration order
Spiders  == {"quotes"}
JobIds   == <<"abc123", "def456", "ghi789", "jkl012">>

\* str.lower() on the URL schemes of the model
Lower(s) == IF s = "FILE" THEN "file" ELSE s

\* the items_dir settings: unset, or a URL with its scheme
ItemsDirs == {None} \cup {[scheme |-> s] : s \in {"", "FILE", "s3"}}
\* the [services] settings: the names of the web services mounted
Services == {{"schedule.json"}, {"schedule.json", "cancel.json"}}
\* the header named by prefix_header: absent, empty or a path
Headers == {None, [value |-> <<>>], [value |-> <<"/scrapyd">>]}

\* Root.__init__: logsdir, local_items and the children mounted
Root(logs_dir, itemsdir, services) ==
    LET logsdir == IF logs_dir = None \/ logs_dir.value = <<>>
                   THEN "logs" ELSE logs_dir.value[1]
        local_items == itemsdir # None /\ Lower(itemsdir.scheme) \in {"", "file"}
    IN  [logsdir |-> logsdir,
         prefix_header |-> "X-Forwarded-Prefix",
         local_items |-> local_items,
         children |-> {logsdir, "", "jobs"}
                      \cup (IF local_items THEN {"items"} ELSE {})
                      \cup services]

\* Jobs.__init__: base_path is not set before the first render
Jobs(rt, local_items) ==
    [local_items |-> local_items, prefix_header |-> rt.prefix_header,
     base_path |-> None]

\* PrefixHeaderMixin.get_base_path: the header's value, or '' when it is
\* absent or empty
get_base_path(self, header) ==
    IF header = None \/ header.value = <<>> THEN <<>> ELSE header.value

\* scrapyd.jobstorage.job_log_url: the log location of a job
job_log_url(p) == <<"/", p.project, "/", p.spider, "/", p.job, ".log">>

\* scrapyd.jobstorage.job_items_url: the items location of a job
job_items_url(p) == <<"/items/", p.project, "/", p.spider, "/", p.job, ".jl">>

(***************************************************************************)
(* website.py: Jobs.  A cell is blank, a text, a number, a time, a link or *)
(* the cancel form; a row is the sequence of its cells.                    *)
(***************************************************************************)
Blank       == [kind |-> "blank"]
Text(s)     == [kind |-> "text", value |-> s]
Number(n)   == [kind |-> "int", value |-> n]
Time(t)     == [kind |-> "time", value |-> t]
Link(href, label) == [kind |-> "link", href |-> href, label |-> label]

\* Jobs.cancel_button
cancel_button(project, jobid, base_path) ==
    [kind |-> "form", action |-> base_path \o <<"/cancel.json">>,
     project |-> project, job |-> jobid]

\* Jobs.header_cols
header_cols == <<"Project", "Spider", "Job", "PID", "Start", "Runtime",
                 "Finish", "Log", "Items", "Cancel">>

\* list.index
Index(s, x) == CHOOSE i \in 1..Len(s) : s[i] = x /\ \A j \in 1..(i - 1) : s[j] # x

\* one 'display: none' rule of gen_css
Hide(col_idx) == [rule |-> "display: none", nth_child |-> col_idx]

\* Jobs.gen_css: the rules of the style sheet (Index counts from 1, as
\* list.index(...) + 1 does)
gen_css(self) ==
    << [rule |-> "thead td center bold", nth_child |-> 0],
       [rule |-> "first row grey", nth_child |-> 0] >>
    \o (IF ~self.local_items THEN <<Hide(Index(header_cols, "Items"))>> ELSE <<>>)
    \o (IF "cancel.json" \notin root.children
        THEN <<Hide(Index(header_cols, "Cancel"))>> ELSE <<>>)

\* the cells given to prep_row: a dict or a list
Dict(d) == [dict |-> d]
List(l) == [list |-> l]

\* dict.get
Get(d, k) == IF k \in DOMAIN d THEN d[k] ELSE None

\* a mutant of prep_row: the cells a dict does not name are left out
prep_row_skipping(cells) ==
    IF "list" \in DOMAIN cells
    THEN cells.list
    ELSE LET keep == SelectSeq(header_cols, LAMBDA k : k \in DOMAIN cells.dict)
         IN  [i \in 1..Len(keep) |-> cells.dict[keep[i]]]

\* Jobs.prep_row: one <td> per column, '' where the dict has no value (a
\* list must have one cell per column: the assert)
prep_row(cells) ==
    LET cs == IF "list" \in DOMAIN cells
              THEN cells.list
              ELSE [i \in 1..Len(header_cols) |-> Get(cells.dict, header_cols[i])]
    IN  [i \in 1..Len(cs) |-> IF cs[i] = None THEN Blank ELSE cs[i]]

\* the header row of prep_table
header_row == prep_row(List([i \in 1..Len(header_cols) |-> Text(<<header_cols[i]>>)]))

\* the Pending row of one message
pending_row(self, project, m) ==
    prep_row(Dict(
        [k \in {"Project", "Spider", "Job", "Cancel"} |->
            CASE k = "Project" -> Text(<<project>>)
              [] k = "Spider"  -> Text(<<m.name>>)
              [] k = "Job"     -> Text(<<m._job>>)
              [] k = "Cancel"  -> cancel_button(project, m._job, self.base_path.value)]))

\* a mutant of prep_tab_pending: every queue is listed under every project
prep_tab_pending_crossed(self) ==
    Flatten([i \in 1..Len(Projects) |->
        Flatten([k \in 1..Len(Projects) |->
            [j \in 1..Len(queues[Projects[k]]) |->
                pending_row(self, Projects[i], queues[Projects[k]][j])]])])

\* a mutant of prep_tab_pending: the cancel form is rendered only when
\* cancel.json is mounted
prep_tab_pending_guarded(self) ==
    Flatten([i \in 1..Len(Projects) |->
        [j \in 1..Len(queues[Projects[i]]) |->
            LET row == pending_row(self, Projects[i], queues[Projects[i]][j])
            IN  IF "cancel.json" \in root.children
                THEN row
                ELSE [row EXCEPT ![Index(header_cols, "Cancel")] = Blank]]])

\* Jobs.prep_tab_pending: the queues in project order, each in queue order
prep_tab_pending(self) ==
    Flatten([i \in 1..Len(Projects) |->
        [j \in 1..Len(queues[Projects[i]]) |->
            pending_row(self, Projects[i], queues[Projects[i]][j])]])

\* the Log link of a Running or Finished row
log_link(self, p) ==
    Link(<<"/", root.logsdir>> \o self.base_path.value \o job_log_url(p), "Log")

\* the Items link of a Running or Finished row
items_link(self, p) ==
    Link(self.base_path.value \o job_items_url(p), "Items")

\* the Running row of one process
running_row(self, p) ==
    prep_row(Dict(
        [k \in {"Project", "Spider", "Job", "PID", "Start", "Runtime", "Log",
                "Items", "Cancel"} |->
            CASE k = "Project" -> Text(<<p.project>>)
              [] k = "Spider"  -> Text(<<p.spider>>)
              [] k = "Job"     -> Text(<<p.job>>)
              [] k = "PID"     -> Number(p.pid)
              [] k = "Start"   -> Time(microsec_trunc(p.start_time))
              [] k = "Runtime" -> Time(microsec_trunc(Since(Datetime(now), p.start_time)))
              [] k = "Log"     -> log_link(self, p)
              [] k = "Items"   -> items_link(self, p)
              [] k = "Cancel"  -> cancel_button(p.project, p.job, self.base_path.value)]))

\* Jobs.prep_tab_running: launcher.processes.values()
prep_tab_running(self) ==
    [i \in 1..Len(processes) |-> running_row(self, processes[i])]

\* the Finished row of one process
finished_row(self, p) ==
    prep_row(Dict(
        [k \in {"Project", "Spider", "Job", "Start", "Runtime", "Finish", "Log",
                "Items"} |->
            CASE k = "Project" -> Text(<<p.project>>)
              [] k = "Spider"  -> Text(<<p.spider>>)
              [] k = "Job"     -> Text(<<p.job>>)
              [] k = "Start"   -> Time(microsec_trunc(p.start_time))
              [] k = "Runtime" -> Time(microsec_trunc(Since(p.end_time, p.start_time)))
              [] k = "Finish"  -> Time(microsec_trunc(p.end_time))
              [] k = "Log"     -> log_link(self, p)
              [] k = "Items"   -> items_link(self, p)]))

\* Jobs.prep_tab_finished: launcher.finished
prep_tab_finished(self) ==
    [i \in 1..Len(finished) |-> finished_row(self, finished[i])]

(***************************************************************************)
(* The state after construction, and the steps of the queue source, the    *)
(* launcher and the clock.                                                 *)
(***************************************************************************)
ProjectSet == Range(Projects)

\* the steps of the clock: 0.7 s, 1 s, 90 s
Steps == {700000, 1000000, 90000000}

AllOnRoot == Root(None, [scheme |-> ""], {"schedule.json", "cancel.json"})

InitJobs ==
    /\ root \in {Root(None, i, s) : i \in ItemsDirs, s \in Services}
    /\ jobs = Jobs(root, root.local_items)
    /\ queues = [p \in ProjectSet |-> <<>>]
    /\ spawning = <<>>
    /\ processes = <<>>
    /\ finished = <<>>
    /\ njobs = 0
    /\ now = 0
    /\ ticks = 0
    /\ render = [pc |-> "idle"]
    /\ doc = None
    /\ shown = [j \in {} |-> None]

\* the scheduler adds a message to a project's queue, under a fresh job id
Schedule(project, spider) ==
    /\ doc = None
    /\ njobs < MaxJobs
    /\ njobs' = njobs + 1
    /\ queues' = [queues EXCEPT ![project] =
                    Append(@, [name |-> spider, _job |-> JobIds[njobs + 1]])]
    /\ lastOp' = "schedule"
    /\ UNCHANGED <<root, spawning, processes, finished, now, ticks, jobs, render,
                   doc, shown>>
    /\ UNCHANGED <<authVars, realmVars, leakVars, truncVars>>

\* the poller pops the next message of a project's queue
Poll(project) ==
    /\ doc = None
    /\ queues[project] # <<>>
    /\ spawning' = Append(spawning, [project |-> project, msg |-> Head(queues[project])])
    /\ queues' = [queues EXCEPT ![project] = Tail(@)]
    /\ lastOp' = "poll"
    /\ UNCHANGED <<root, processes, finished, njobs, now, ticks, jobs, render, doc,
                   shown>>
    /\ UNCHANGED <<authVars, realmVars, leakVars, truncVars>>

\* the launcher spawns the process of a popped message
Spawn ==
    /\ doc = None
    /\ spawning # <<>>
    /\ LET s == Head(spawning)
       IN  processes' = Append(processes,
               [project |-> s.project, spider |-> s.msg.name, job |-> s.msg._job,
                pid |-> 4000 + Len(processes) + Len(finished) + 1,
                start_time |-> Datetime(now)])
    /\ spawning' = Tail(spawning)
    /\ lastOp' = "spawn"
    /\ UNCHANGED <<root, queues, finished, njobs, now, ticks, jobs, render, doc,
                   shown>>
    /\ UNCHANGED <<authVars, realmVars, leakVars, truncVars>>

\* a process ends: the launcher moves it from processes to finished
ProcessEnded(i) ==
    /\ doc = None
    /\ i \in 1..Len(processes)
    /\ LET p == processes[i]
       IN  /\ finished' = Append(finished,
                  [project |-> p.project, spider |-> p.spider, job |-> p.job,
                   pid |-> p.pid, start_time |-> p.start_time,
                   end_time |-> Datetime(now)])
           /\ shown' = [j \in DOMAIN shown \ {p.job} |-> shown[j]]
    /\ processes' = RemoveAt(processes, i)
    /\ lastOp' = "processEnded"
    /\ UNCHANGED <<root, queues, spawning, njobs, now, ticks, jobs, render, doc>>
    /\ UNCHANGED <<authVars, realmVars, leakVars, truncVars>>

\* time passes
Tick(d) ==
    /\ doc = None
    /\ ticks < MaxTicks
    /\ ticks' = ticks + 1
    /\ now' = now + d
    /\ lastOp' = "tick"
    /\ UNCHANGED <<root, queues, spawning, processes, finished, njobs, jobs, render,
                   doc, shown>>
    /\ UNCHANGED <<authVars, realmVars, leakVars, truncVars>>

(***************************************************************************)
(* Jobs.render                                                             *)
(***************************************************************************)
\* the Runtime cells of the Running rows, by job, with the time of the render
RuntimesShown(rows) ==
    [j \in {rows[i][Index(header_cols, "Job")].value[1] : i \in 1..Len(rows)} |->
        LET i == CHOOSE k \in 1..Len(rows) :
                     rows[k][Index(header_cols, "Job")].value[1] = j
        IN  [at |-> now, runtime |-> Total(rows[i][Index(header_cols, "Runtime")].value)]]

\* prep_doc and the response headers: the document render returns
Document(css, pending, running, fin) ==
    [css |-> css, header |-> header_row, pending |-> pending, running |-> running,
     finished |-> fin, content_type |-> "text/html; charset=utf-8"]

\* Jobs.render, in one reactor turn
Render(header) ==
    /\ doc = None
    /\ render.pc = "idle"
    /\ LET self == [jobs EXCEPT !.base_path = [value |-> get_base_path(jobs, header)]]
           running == prep_tab_running(self)
       IN  /\ jobs' = self
           /\ doc' = Document(gen_css(self), prep_tab_pending(self), running,
                              prep_tab_finished(self))
           /\ shown' = RuntimesShown(running)
    /\ lastOp' = "render"
    /\ UNCHANGED <<root, queues, spawning, processes, finished, njobs, now, ticks,
                   render>>
    /\ UNCHANGED <<authVars, realmVars, leakVars, truncVars>>

\* twisted.web writes the returned document out and finishes the request
WriteResponse ==
    /\ doc # None
    /\ doc' = None
    /\ lastOp' = "write"
    /\ UNCHANGED <<root, queues, spawning, processes, finished, njobs, now, ticks,
                   jobs, render, shown>>
    /\ UNCHANGED <<authVars, realmVars, leakVars, truncVars>>

(***************************************************************************)
(* Jobs.render with its three section reads as separate steps, the queue   *)
(* source and the launcher running in between.                             *)
(***************************************************************************)
\* render up to the first section: base_path, gen_css and the header row
BeginRender(header) ==
    /\ doc = None
    /\ render.pc = "idle"
    /\ LET self == [jobs EXCEPT !.base_path = [value |-> get_base_path(jobs, header)]]
       IN  /\ jobs' = self
           /\ render' = [pc |-> "pending", css |-> gen_css(self),
                         pending |-> <<>>, running |-> <<>>]
    /\ lastOp' = "render"
    /\ UNCHANGED <<root, queues, spawning, processes, finished, njobs, now, ticks,
                   doc, shown>>
    /\ UNCHANGED <<authVars, realmVars, leakVars, truncVars>>

\* prep_table reaches prep_tab_pending
ReadPending ==
    /\ render.pc = "pending"
    /\ render' = [render EXCEPT !.pc = "running", !.pending = prep_tab_pending(jobs)]
    /\ lastOp' = "render"
    /\ UNCHANGED <<root, queues, spawning, processes, finished, njobs, now, ticks,
                   jobs, doc, shown>>
    /\ UNCHANGED <<authVars, realmVars, leakVars, truncVars>>

\* prep_table reaches prep_tab_running
ReadRunning ==
    /\ render.pc = "running"
    /\ LET running == prep_tab_running(jobs)
       IN  /\ render' = [render EXCEPT !.pc = "finished", !.running = running]
           /\ shown' = RuntimesShown(running)
    /\ lastOp' = "render"
    /\ UNCHANGED <<root, queues, spawning, processes, finished, njobs, now, ticks,
                   jobs, doc>>
    /\ UNCHANGED <<authVars, realmVars, leakVars, truncVars>>

\* prep_table reaches prep_tab_finished, and render returns the document
ReadFinished ==
    /\ render.pc = "finished"
    /\ doc' = Document(render.css, render.pending, render.running,
                       prep_tab_finished(jobs))
    /\ render' = [pc |-> "idle"]
    /\ lastOp' = "render"
    /\ UNCHANGED <<root, queues, spawning, processes, finished, njobs, now, ticks,
                   jobs, shown>>
    /\ UNCHANGED <<authVars, realmVars, leakVars, truncVars>>

(***************************************************************************)
(* The specifications.                                                     *)
(***************************************************************************)
IdleAuth ==
    /\ config = [username |-> <<>>, password |-> <<>>]
    /\ checker = StringCredentialsChecker(<<>>, <<>>)
    /\ credentials = None
    /\ deferred = None
    /\ stdout = <<>>

IdleRealm == realm = PublicHTMLRealm("root") /\ avatarRequest = None /\ avatar = None

IdleLeak ==
    /\ procA = NewProc([username |-> <<>>, password |-> <<>>])
    /\ procB = NewProc([username |-> <<>>, password |-> <<>>])

IdleTrunc == timelike = Timedelta(0) /\ truncated = None /\ twice = None

IdleJobs == InitJobs /\ root = AllOnRoot

InitAuthSpec  == InitAuth /\ IdleRealm /\ IdleLeak /\ IdleTrunc /\ IdleJobs /\ lastOp = "init"
InitRealmSpec == IdleAuth /\ InitRealm /\ IdleLeak /\ IdleTrunc /\ IdleJobs /\ lastOp = "init"
InitLeakSpec  == IdleAuth /\ IdleRealm /\ InitLeak /\ IdleTrunc /\ IdleJobs /\ lastOp = "init"
InitTruncSpec == IdleAuth /\ IdleRealm /\ IdleLeak /\ InitTrunc /\ IdleJobs /\ lastOp = "init"
Init          == IdleAuth /\ IdleRealm /\ IdleLeak /\ IdleTrunc /\ InitJobs /\ lastOp = "init"
InitPinned    == IdleAuth /\ IdleRealm /\ IdleLeak /\ IdleTrunc /\ IdleJobs /\ lastOp = "init"

NextAuth == \E creds \in Presented : CallRequestAvatarId(creds)

NextRealm ==
    \E avatarId \in ByteStrings, interfaces \in SeqsUpTo(Interfaces, MaxIfaces) :
        CallRequestAvatar(avatarId, interfaces)

NextLeak == \E credsA \in PresentedEncoded, credsB \in PresentedEncoded : CallBoth(credsA, credsB)

NextTrunc == Truncate \/ TruncateAgain

Next ==
    \/ \E project \in ProjectSet, spider \in Spiders : Schedule(project, spider)
    \/ \E project \in ProjectSet : Poll(project)
    \/ Spawn
    \/ \E i \in 1..MaxJobs : ProcessEnded(i)
    \/ \E header \in Headers : Render(header)
    \/ WriteResponse

NextClock ==
    \/ \E spider \in Spiders : njobs = 0 /\ Schedule(Projects[1], spider)
    \/ Poll(Projects[1])
    \/ Spawn
    \/ ProcessEnded(1)
    \/ \E d \in Steps : Tick(d)
    \/ Render(None)
    \/ WriteResponse

NextConc ==
    \/ \E project \in ProjectSet, spider \in Spiders : Schedule(project, spider)
    \/ \E project \in ProjectSet : Poll(project)
    \/ Spawn
    \/ \E i \in 1..MaxJobs : ProcessEnded(i)
    \/ BeginRender(None)
    \/ ReadPending
    \/ ReadRunning
    \/ ReadFinished
    \/ WriteResponse

SpecAuth  == InitAuthSpec /\ [][NextAuth]_vars
SpecRealm == InitRealmSpec /\ [][NextRealm]_vars
SpecLeak  == InitLeakSpec /\ [][NextLeak]_vars
SpecTrunc == InitTruncSpec /\ [][NextTrunc]_vars
Spec      == Init /\ [][Next]_vars
SpecClock == InitPinned /\ [][NextClock]_vars
SpecConc  == InitPinned /\ [][NextConc]_vars

(***************************************************************************)
(* The properties.                                                         *)
(***************************************************************************)
\* the cell of a row under a column
Cell(row, col) == row[Index(header_cols, col)]

\* the job id a row shows
JobOf(row) == Cell(row, "Job").value[1]

\* the pending messages with their projects, in project then queue order
PendingEntries ==
    Flatten([i \in 1..Len(Projects) |->
        [j \in 1..Len(queues[Projects[i]]) |->
            [project |-> Projects[i], msg |-> queues[Projects[i]][j]]]])

\* the base path of the latest request
BasePath == jobs.base_path.value

\* the feature flag cancel_available: a cancel.json child is mounted
CancelAvailable == "cancel.json" \in root.children

\* the feature flag items_browsable
ItemsBrowsable == root.local_items

\* C1: requestAvatarId succeeds exactly when the presented username and the
\* presented password both equal the UTF-8 bytes of the configured ones; on
\* success the identity is the presented username, and otherwise the result
\* is UnauthorizedLogin.
C1_SucceedsIffBothMatch ==
    deferred # None =>
        LET match == /\ credentials.username = Encode(config.username)
                     /\ credentials.password = Encode(config.password)
        IN  /\ (deferred.state = "succeed") <=> match
            /\ match => deferred = [state |-> "succeed", result |-> credentials.username]
            /\ ~match => deferred = [state |-> "fail", failure |-> "UnauthorizedLogin"]

\* a call that succeeded on a two-byte (non-ASCII) username
C1_Witness ==
    /\ deferred # None
    /\ deferred.state = "succeed"
    /\ Len(credentials.username) = 2

\* C2: requestAvatar returns the realm's one resource, whoever the avatar is,
\* when IResource is among the requested interfaces, and raises, returning no
\* resource, when it is not (no interface requested included).
C2_ResourceIffIResourceRequested ==
    avatar # None =>
        IF \E i \in 1..Len(avatarRequest.interfaces) :
               avatarRequest.interfaces[i] = "IResource"
        THEN /\ avatar.kind = "return"
             /\ avatar.value[1] = "IResource"
             /\ avatar.value[2] = realm.resource
        ELSE /\ avatar.kind = "raise"
             /\ avatar.exc = "NotImplementedError"
             /\ "value" \notin DOMAIN avatar

\* a grant where IResource was the second interface requested
C2_Witness ==
    /\ avatar # None
    /\ avatar.kind = "return"
    /\ Len(avatarRequest.interfaces) = 2
    /\ avatarRequest.interfaces[1] # "IResource"
    /\ avatarRequest.avatarId # <<>>

\* what every Pending row shows whatever the flags: Project, Spider, Job, and
\* blank PID, Start, Runtime, Finish, Log and Items cells
PendingRowBasics(row, e) ==
    /\ Len(row) = 10
    /\ Cell(row, "Project") = Text(<<e.project>>)
    /\ Cell(row, "Spider") = Text(<<e.msg.name>>)
    /\ Cell(row, "Job") = Text(<<e.msg._job>>)
    /\ \A col \in {"PID", "Start", "Runtime", "Finish", "Log", "Items"} :
           Cell(row, col) = Blank

\* the Cancel cell of a row holds a cancel action for (project, job)
HasCancelAction(row, project, job) ==
    /\ Cell(row, "Cancel").kind = "form"
    /\ Cell(row, "Cancel").project = project
    /\ Cell(row, "Cancel").job = job
    /\ Cell(row, "Cancel").action = BasePath \o <<"/cancel.json">>

\* C3 as stated: every Pending row has Project, Spider and Job populated, a
\* cancel action for its (project, job) in the Cancel cell if and only if
\* cancel.json is mounted, and every other cell blank.
C3_Original ==
    doc # None =>
        /\ Len(doc.pending) = Len(PendingEntries)
        /\ \A i \in 1..Len(doc.pending) :
               LET row == doc.pending[i]
                   e == PendingEntries[i]
               IN  /\ PendingRowBasics(row, e)
                   /\ HasCancelAction(row, e.project, e.msg._job) <=> CancelAvailable
                   /\ ~CancelAvailable => Cell(row, "Cancel") = Blank

\* C3 (amended): every Pending row has Project, Spider and Job populated,
\* every other cell but Cancel blank, and a cancel action for its (project,
\* job) in the Cancel cell whether or not cancel.json is mounted; when it is
\* not mounted the style sheet hides the Cancel column instead.
C3_PendingRow ==
    doc # None =>
        /\ Len(doc.pending) = Len(PendingEntries)
        /\ \A i \in 1..Len(doc.pending) :
               LET row == doc.pending[i]
                   e == PendingEntries[i]
               IN  /\ PendingRowBasics(row, e)
                   /\ HasCancelAction(row, e.project, e.msg._job)
        /\ (\E k \in 1..Len(doc.css) : doc.css[k] = Hide(10)) <=> ~CancelAvailable

\* a Pending row rendered while cancel.json is not mounted
C3_Witness ==
    /\ doc # None
    /\ Len(doc.pending) > 0
    /\ ~CancelAvailable

\* the kinds of cell a column may hold
KindsOf(col) ==
    CASE col \in {1, 2, 3} -> {"text"}
      [] col = 4 -> {"blank", "int"}
      [] col \in {5, 6, 7} -> {"blank", "time"}
      [] col \in {8, 9} -> {"blank", "link"}
      [] col = 10 -> {"blank", "form"}

\* C4: the header row and every Pending, Running and Finished row have
\* exactly the ten cells Project, Spider, Job, PID, Start, Runtime, Finish,
\* Log, Items, Cancel in that order; column 9 is hidden exactly when
\* items_browsable is false and column 10 exactly when cancel_available is
\* false.
C4_TenCellsAndHiddenColumns ==
    doc # None =>
        /\ doc.header = << Text(<<"Project">>), Text(<<"Spider">>), Text(<<"Job">>),
                           Text(<<"PID">>), Text(<<"Start">>), Text(<<"Runtime">>),
                           Text(<<"Finish">>), Text(<<"Log">>), Text(<<"Items">>),
                           Text(<<"Cancel">>) >>
        /\ \A rows \in {doc.pending, doc.running, doc.finished} :
               \A i \in 1..Len(rows) :
                   /\ Len(rows[i]) = 10
                   /\ \A col \in 1..10 : rows[i][col].kind \in KindsOf(col)
        /\ Len(doc.pending) = Len(PendingEntries)
        /\ Len(doc.running) = Len(processes)
        /\ Len(doc.finished) = Len(finished)
        /\ (\E k \in 1..Len(doc.css) : doc.css[k] = Hide(9)) <=> ~ItemsBrowsable
        /\ (\E k \in 1..Len(doc.css) : doc.css[k] = Hide(10)) <=> ~CancelAvailable

\* a table with Pending and Finished rows, rendered with both flags false
C4_Witness ==
    /\ doc # None
    /\ Len(doc.pending) > 0
    /\ Len(doc.finished) > 0
    /\ ~ItemsBrowsable
    /\ ~CancelAvailable

\* the base path is the leading prefix of the Log link and of the Items link
\* of a row, and the Items link is the base path followed by the items
\* location of the record
LinksStartWithBasePath(row, p) ==
    /\ Cell(row, "Log").kind = "link"
    /\ Cell(row, "Items").kind = "link"
    /\ IsPrefix(BasePath, Cell(row, "Log").href)
    /\ Cell(row, "Items").href = BasePath \o job_items_url(p)

\* C5 as stated: in every Running and Finished row the Log link and the Items
\* link start with the request's base path.
C5_Original ==
    doc # None =>
        /\ \A i \in 1..Len(doc.running) :
               LinksStartWithBasePath(doc.running[i], processes[i])
        /\ \A i \in 1..Len(doc.finished) :
               LinksStartWithBasePath(doc.finished[i], finished[i])

\* the duration d with its sub-second part discarded
WholeSeconds(d) == (d \div MicrosPerSecond) * MicrosPerSecond

\* the Runtime cell of every Running row is now - start_time, in whole seconds
RuntimeIsWholeSecondsSinceStart ==
    doc # None =>
        /\ Len(doc.running) = Len(processes)
        /\ \A i \in 1..Len(doc.running) :
               LET d == now - Total(processes[i].start_time)
                   cell == Cell(doc.running[i], "Runtime")
               IN  /\ d >= 0
                   /\ cell.kind = "time"
                   /\ cell.value.type = "timedelta"
                   /\ cell.value.microseconds = 0
                   /\ Total(cell.value) = WholeSeconds(d)

\* from one render of a running record to the next its Runtime does not
\* decrease, and grows by one second when the renders are one second apart
RuntimeGrowsWithTheClock ==
    lastOp' = "render" =>
        \A j \in DOMAIN shown \cap DOMAIN shown' :
            /\ shown'[j].runtime >= shown[j].runtime
            /\ shown'[j].at = shown[j].at + MicrosPerSecond
                   => shown'[j].runtime = shown[j].runtime + MicrosPerSecond

\* C6: the Runtime cell of a Running record started at T and rendered at
\* N >= T is N - T with the sub-second part discarded; it is recomputed on
\* every render, never decreasing, and two renders one second apart differ
\* by exactly one second.
C6_RunningRuntime ==
    []RuntimeIsWholeSecondsSinceStart /\ [][RuntimeGrowsWithTheClock]_vars

\* a Running row rendered 90.7 s after its start, showing 90 s
C6_Witness ==
    /\ doc # None
    /\ Len(doc.running) > 0
    /\ now - Total(processes[1].start_time) = 90700000
    /\ Total(Cell(doc.running[1], "Runtime").value) = 90000000

\* the sub-second component of a datetime or timedelta
SubSecond(t) == IF t.type = "datetime" THEN t.microsecond ELSE t.microseconds

\* C7: microsec_trunc never rounds up, leaves a zero sub-second component,
\* differs from its argument by less than one second, and is idempotent, for
\* timestamps and for durations of either sign.
C7_TruncIdempotentAndDown ==
    /\ truncated # None =>
           /\ truncated.type = timelike.type
           /\ Total(truncated) <= Total(timelike)
           /\ Total(timelike) - Total(truncated) < MicrosPerSecond
           /\ SubSecond(truncated) = 0
    /\ twice # None => twice = truncated

\* a negative duration with a sub-second part, truncated twice
C7_Witness ==
    /\ twice # None
    /\ timelike.type = "timedelta"
    /\ timelike.days < 0
    /\ timelike.microseconds = 700000

\* the job ids of the rows of a section
JobsOf(rows) == {JobOf(rows[i]) : i \in 1..Len(rows)}

\* no job id shows twice in a section
NoDuplicate(rows) ==
    \A i, k \in 1..Len(rows) : JobOf(rows[i]) = JobOf(rows[k]) => i = k

C9_Original ==
    [][lastOp' = "render" =>
          UNCHANGED <<queues, spawning, processes, finished, root, jobs>>]_vars

\* C10 as stated: two processes that differ only in the configured and the
\* presented secrets, and take the same decisions, have printed the same
\* output.
C10_Original ==
    procA.decisions = procB.decisions => procA.stdout = procB.stdout

=============================================================================
